---------------------------- MODULE Spec2Model ----------------------------
(***************************************************************************)
(* Model of brainstorm_ideas (prompt_generator.ipynb, "Define functions"   *)
(* cell) together with the pydantic models Audience / Idea / Ideas it      *)
(* validates against.                                                      *)
(*                                                                         *)
(* Several invocations of brainstorm_ideas run interleaved.  Every local   *)
(* of the function is a function over the invocations.  An invocation is   *)
(* cut at the points where the Python code blocks in client.create: its    *)
(* steps are the code from one such point to the next.  The chat           *)
(* completion service is the environment: a call returns a text chosen     *)
(* from a bounded set, or raises.                                          *)
(*                                                                         *)
(* Python and JSON values are tagged records [k |-> kind, ...]; the kind   *)
(* is what the validators of pydantic look at.                             *)
(***************************************************************************)
EXTENDS Integers, Sequences, FiniteSets, TLC

(***************************************************************************)
(* Bounds of the model.                                                    *)
(***************************************************************************)
MaxIdeas == 2      \* longest "ideas" array in an extractor response
MaxCount == 4      \* the request and rejection counters saturate here

(***************************************************************************)
(* Program constant: the literal of `while num_try < 3`.                   *)
(***************************************************************************)
MaxTries == 3

Invs == {"call1", "call2"}

(***************************************************************************)
(* Values.                                                                 *)
(***************************************************************************)
None == [k |-> "None"]

PyStr(s) == [k |-> "str", v |-> s]

PyInt(s) == [k |-> "int", v |-> s]

PyList(items) == [k |-> "list", v |-> items]

\* A JSON object / Python dict: o is a function from its keys to values.
PyDict(o) == [k |-> "dict", o |-> o]

\* A text that is not a JSON document at all (empty, blank, prose).
RawText(s) == [k |-> "raw", v |-> s]

\* A text that is the serialisation of the JSON value j.
JsonText(j) == [k |-> "json", v |-> j]

(***************************************************************************)
(* The pydantic models (cell "Define classes").                            *)
(***************************************************************************)
\* The failure of a validation: pydantic raises ValidationError.
ValidationError == [k |-> "ValidationError"]

\* class Audience: age: str, attributes: List[str]
AudienceFields == {"age", "attributes"}

\* class Idea: title, detail, style, procedure, each a str
IdeaFields == {"title", "detail", "style", "procedure"}

\* class Ideas: ideas: List[Idea]
IdeasFields == {"ideas"}

\* Ideas.model_json_schema(): the declared structure, the same object on
\* every call.
IdeasSchema ==
    [title |-> "Ideas", required |-> IdeasFields,
     items |-> [title |-> "Idea", required |-> IdeaFields, type |-> "string"]]

\* What the declarations of Idea and Ideas ask of a response text: it is a
\* JSON object whose "ideas" is an array of objects, each with the four
\* fields of Idea as strings.
SatisfiesIdeasSchema(response) ==
    /\ response.k = "json"
    /\ response.v.k = "dict"
    /\ "ideas" \in DOMAIN response.v.o
    /\ response.v.o["ideas"].k = "list"
    /\ \A n \in 1..Len(response.v.o["ideas"].v) :
          LET item == response.v.o["ideas"].v[n]
          IN  /\ item.k = "dict"
              /\ \A f \in IdeaFields : f \in DOMAIN item.o /\ item.o[f].k = "str"

\* A JSON document has a key that Ideas, or an object of its "ideas" that
\* Idea, does not declare.
HasUnknownFields(response) ==
    /\ response.k = "json"
    /\ response.v.k = "dict"
    /\ \/ ~(DOMAIN response.v.o \subseteq IdeasFields)
       \/ /\ "ideas" \in DOMAIN response.v.o
          /\ response.v.o["ideas"].k = "list"
          /\ \E n \in 1..Len(response.v.o["ideas"].v) :
                LET item == response.v.o["ideas"].v[n]
                IN  item.k = "dict" /\ ~(DOMAIN item.o \subseteq IdeaFields)

\* A field annotated str takes a str and nothing else: pydantic 2 does not
\* turn a number, a null, a list or an object into a string.
ValidateStr(x) == IF x.k = "str" THEN x ELSE ValidationError

\* A field annotated List[str]: a list all of whose items are str.
ValidateStrList(x) ==
    IF x.k = "list" /\ \A n \in 1..Len(x.v) : ValidateStr(x.v[n]) # ValidationError
    THEN PyList([n \in 1..Len(x.v) |-> ValidateStr(x.v[n])])
    ELSE ValidationError

\* What the declaration of Audience asks of the keyword arguments: age is
\* there and is a str, attributes is there and is a list of str.
FormsAudience(kw) ==
    /\ "age" \in DOMAIN kw
    /\ kw["age"].k = "str"
    /\ "attributes" \in DOMAIN kw
    /\ kw["attributes"].k = "list"
    /\ \A n \in 1..Len(kw["attributes"].v) : kw["attributes"].v[n].k = "str"

\* Variant of Audience.model_validate: the keys are looked for, the types
\* of their values are not checked.
AudienceModelValidateKeysOnly(kw) ==
    IF AudienceFields \subseteq DOMAIN kw
    THEN [k |-> "Audience", age |-> kw["age"], attributes |-> kw["attributes"]]
    ELSE ValidationError

\* Audience.model_validate(kwargs): kwargs is the dict of the keyword
\* arguments.  A new Audience object is built; kwargs itself is only read.
\* Keys the model does not declare are ignored.
AudienceModelValidate(kw) ==
    IF /\ AudienceFields \subseteq DOMAIN kw
       /\ ValidateStr(kw["age"]) # ValidationError
       /\ ValidateStrList(kw["attributes"]) # ValidationError
    THEN [k |-> "Audience", age |-> ValidateStr(kw["age"]),
          attributes |-> ValidateStrList(kw["attributes"])]
    ELSE ValidationError

\* Variant of ValidateIdea: an object with a key Idea does not declare is
\* rejected (extra = 'forbid').
ValidateIdeaForbidExtra(j) ==
    IF /\ j.k = "dict"
       /\ DOMAIN j.o = IdeaFields
       /\ \A f \in IdeaFields : ValidateStr(j.o[f]) # ValidationError
    THEN [f \in IdeaFields |-> ValidateStr(j.o[f])]
    ELSE ValidationError

\* One item of "ideas" validated as an Idea: it has to be an object that
\* has the four fields, each a string.  The Idea built holds the declared
\* fields only; other keys of the object are ignored (pydantic's default
\* extra = 'ignore').
ValidateIdea(j) ==
    IF /\ j.k = "dict"
       /\ IdeaFields \subseteq DOMAIN j.o
       /\ \A f \in IdeaFields : ValidateStr(j.o[f]) # ValidationError
    THEN [f \in IdeaFields |-> ValidateStr(j.o[f])]
    ELSE ValidationError

\* Variant of ValidateIdeaList: a bad item is left out and the rest is kept.
RECURSIVE ValidateIdeaListBestEffort(_)
ValidateIdeaListBestEffort(items) ==
    IF items = <<>> THEN PyList(<<>>)
    ELSE LET head == ValidateIdea(Head(items))
             rest == ValidateIdeaListBestEffort(Tail(items))
         IN  IF head = ValidationError THEN rest
             ELSE PyList(<<head>> \o rest.v)

\* The items of "ideas" validated one after the other, in their order; one
\* bad item fails the whole list.
RECURSIVE ValidateIdeaList(_)
ValidateIdeaList(items) ==
    IF items = <<>> THEN PyList(<<>>)
    ELSE LET head == ValidateIdea(Head(items))
             rest == ValidateIdeaList(Tail(items))
         IN  IF head = ValidationError \/ rest = ValidationError
             THEN ValidationError
             ELSE PyList(<<head>> \o rest.v)

\* Variant of ValidateIdeas: the ideas come out in the opposite order.
ValidateIdeasReversed(j) ==
    IF /\ j.k = "dict"
       /\ IdeasFields \subseteq DOMAIN j.o
       /\ j.o["ideas"].k = "list"
       /\ ValidateIdeaList(j.o["ideas"].v) # ValidationError
    THEN LET l == ValidateIdeaList(j.o["ideas"].v).v
         IN  [k |-> "Ideas", ideas |-> [n \in 1..Len(l) |-> l[Len(l) + 1 - n]]]
    ELSE ValidationError

\* A parsed JSON value validated as Ideas.
ValidateIdeas(j) ==
    IF /\ j.k = "dict"
       /\ IdeasFields \subseteq DOMAIN j.o
       /\ j.o["ideas"].k = "list"
       /\ ValidateIdeaList(j.o["ideas"].v) # ValidationError
    THEN [k |-> "Ideas", ideas |-> ValidateIdeaList(j.o["ideas"].v).v]
    ELSE ValidationError

\* Ideas.model_validate_json(response): parse the text as JSON, then
\* validate.  A text that is not JSON, and a content of None, fail.
ModelValidateJson(response) ==
    IF response.k = "json" THEN ValidateIdeas(response.v) ELSE ValidationError

(***************************************************************************)
(* The inputs the environment draws from.                                  *)
(***************************************************************************)
SeqsUpTo(S, n) == UNION {[1..m -> S] : m \in 0..n}

\* The keyword arguments of a call.  The first is the audience of the
\* notebook's test cell; the first two form an Audience, the others do not
\* (age missing, age a number, attributes missing, attributes a string,
\* attributes with a number in it).
KwargsSet ==
    { [age |-> PyStr("18-22"),
       attributes |-> PyList(<<PyStr("energetic"), PyStr("undergraduate")>>)],
      [age |-> PyStr("60+"), attributes |-> PyList(<<>>)],
      [attributes |-> PyList(<<PyStr("energetic")>>)],
      [age |-> PyInt("18"), attributes |-> PyList(<<PyStr("energetic")>>)],
      [age |-> PyStr("18-22")],
      [age |-> PyStr("18-22"), attributes |-> PyStr("energetic")],
      [age |-> PyStr("18-22"),
       attributes |-> PyList(<<PyStr("energetic"), PyInt("7")>>)] }

\* The texts the brainstorm call may return.
Conversations == {PyStr("prose one"), PyStr("prose two")}

IdeaA ==
    PyDict([title |-> PyStr("T1"), detail |-> PyStr("D1"),
            style |-> PyStr("S"), procedure |-> PyStr("P")])

IdeaB ==
    PyDict([title |-> PyStr("T2"), detail |-> PyStr("D2"),
            style |-> PyStr("S"), procedure |-> PyStr("P")])

\* An idea with a key the model does not declare.
IdeaExtra ==
    PyDict([title |-> PyStr("T1"), detail |-> PyStr("D1"),
            style |-> PyStr("S"), procedure |-> PyStr("P"),
            mood |-> PyStr("M")])

\* An idea without "procedure".
IdeaMissing ==
    PyDict([title |-> PyStr("T1"), detail |-> PyStr("D1"), style |-> PyStr("S")])

\* An idea whose "style" is a number.
IdeaNumber ==
    PyDict([title |-> PyStr("T1"), detail |-> PyStr("D1"),
            style |-> PyInt("7"), procedure |-> PyStr("P")])

JsonItems == {IdeaA, IdeaB, IdeaMissing, IdeaNumber}

\* The contents the extractor call may return: JSON documents with an
\* "ideas" array of up to MaxIdeas items, documents of another shape, texts
\* that are not JSON, and no content at all.
Responses ==
    {JsonText(PyDict([ideas |-> PyList(l)])) : l \in SeqsUpTo(JsonItems, MaxIdeas)}
    \cup
    { JsonText(PyDict([ideas |-> PyList(<<IdeaExtra>>)])),
      JsonText(PyDict([ideas |-> PyList(<<IdeaA>>), note |-> PyStr("N")])),
      JsonText(PyDict([ideas |-> PyStr("not-a-list")])),
      JsonText(PyDict([ideas |-> PyList(<<PyStr("T1")>>)])),
      JsonText(PyDict([note |-> PyStr("N")])),
      JsonText(PyList(<<IdeaA>>)),
      RawText(""), RawText("   "), RawText("Here are the ideas: ..."),
      None }

(***************************************************************************)
(* The state.  Every variable is a function over the invocations.          *)
(***************************************************************************)
VARIABLES
    pc,            \* where the invocation is: "start", "await_brainstorm",
                   \* "loop", "await_extract", "done"
    kwargs,        \* the caller's keyword arguments
    audience,      \* local audience
    conversation,  \* local conversation: the brainstorm text
    num_try,       \* local num_try
    schema,        \* local schema
    inflight,      \* the request client.create is blocked in, or None
    result,        \* the value returned, or None
    error,         \* the exception the call ended with, or "None"
    accepted,      \* history: the response the result was parsed from
    delivered,     \* history: the text the service returned to the
                   \* brainstorm call of this invocation
    received,      \* history: whether the last extractor response satisfied
                   \* the schema: "None", "valid", "invalid"
    raisedBy,      \* history: the call in which client.create raised
    nBrainstorm,   \* history: brainstorm requests issued
    nExtract,      \* history: extractor requests issued
    nRejected,     \* history: extractor responses that failed validation
    sentExtract,   \* history: the contents of the extractor requests issued
    unknown        \* history: the last extractor response satisfied the
                   \* schema and had keys the models do not declare

vars == <<pc, kwargs, audience, conversation, num_try, schema, inflight,
          result, error, accepted, delivered, received, raisedBy,
          nBrainstorm, nExtract, nRejected, sentExtract, unknown>>

\* The history counters stop counting at MaxCount.
Inc(n) == IF n < MaxCount THEN n + 1 ELSE n

\* The message of the first client.create: the instruction, the model name
\* and the keyword arguments as they were passed.
BrainstormRequest(kw) ==
    [k |-> "brainstorm", model |-> "gpt-35", audience |-> kw]

\* Variant of ExtractRequest: the brainstorm text is left out of the
\* message.
ExtractRequestNoConversation(sch, conv) ==
    [k |-> "extract", schema |-> sch, conversation |-> None]

\* The message of the client.create in the loop: the schema and the
\* brainstorm text.
ExtractRequest(sch, conv) ==
    [k |-> "extract", schema |-> sch, conversation |-> conv]

Init ==
    /\ pc = [i \in Invs |-> "start"]
    /\ kwargs \in [Invs -> KwargsSet]
    /\ audience = [i \in Invs |-> None]
    /\ conversation = [i \in Invs |-> None]
    /\ num_try = [i \in Invs |-> 0]
    /\ schema = [i \in Invs |-> None]
    /\ inflight = [i \in Invs |-> None]
    /\ result = [i \in Invs |-> None]
    /\ error = [i \in Invs |-> "None"]
    /\ accepted = [i \in Invs |-> None]
    /\ delivered = [i \in Invs |-> None]
    /\ received = [i \in Invs |-> "None"]
    /\ raisedBy = [i \in Invs |-> "None"]
    /\ nBrainstorm = [i \in Invs |-> 0]
    /\ nExtract = [i \in Invs |-> 0]
    /\ nRejected = [i \in Invs |-> 0]
    /\ sentExtract = [i \in Invs |-> {}]
    /\ unknown = [i \in Invs |-> FALSE]

\* Variant of KwargsAfterValidate: the attributes are popped off the
\* caller's dict.
KwargsAfterPop(kw) == [x \in DOMAIN kw \ {"attributes"} |-> kw[x]]

\* What the code from the entry to the first client.create does to the
\* caller's keyword arguments: model_validate and the f-string read them.
KwargsAfterValidate(kw) == kw

\* The call begins: Audience.model_validate(kwargs), which raises on
\* keyword arguments that are no Audience, then the first client.create is
\* entered.
Start(i) ==
    /\ pc[i] = "start"
    /\ LET a == AudienceModelValidate(kwargs[i])
       IN  IF a = ValidationError
           THEN /\ pc' = [pc EXCEPT ![i] = "done"]
                /\ error' = [error EXCEPT ![i] = "ValidationError"]
                /\ UNCHANGED <<audience, inflight, nBrainstorm>>
           ELSE /\ audience' = [audience EXCEPT ![i] = a]
                /\ inflight' = [inflight EXCEPT ![i] = BrainstormRequest(kwargs[i])]
                /\ nBrainstorm' = [nBrainstorm EXCEPT ![i] = Inc(@)]
                /\ pc' = [pc EXCEPT ![i] = "await_brainstorm"]
                /\ UNCHANGED error
    /\ kwargs' = [kwargs EXCEPT ![i] = KwargsAfterValidate(@)]
    /\ UNCHANGED <<conversation, num_try, schema, result, accepted, delivered,
                   received, raisedBy, nExtract, nRejected>>
    /\ UNCHANGED <<sentExtract, unknown>>

\* Variant of BrainstormReturns: conversation is one module-level name
\* that every invocation assigns and reads.
BrainstormReturnsGlobal(i, text) ==
    /\ pc[i] = "await_brainstorm"
    /\ conversation' = [j \in Invs |-> text]
    /\ num_try' = [num_try EXCEPT ![i] = 0]
    /\ schema' = [schema EXCEPT ![i] = IdeasSchema]
    /\ inflight' = [inflight EXCEPT ![i] = None]
    /\ delivered' = [delivered EXCEPT ![i] = text]
    /\ pc' = [pc EXCEPT ![i] = "loop"]
    /\ UNCHANGED <<kwargs, audience, result, error, accepted, received,
                   raisedBy, nBrainstorm, nExtract, nRejected>>
    /\ UNCHANGED <<sentExtract, unknown>>

\* The first client.create returns text: conversation = text, num_try = 0,
\* schema = Ideas.model_json_schema().
BrainstormReturns(i, text) ==
    /\ pc[i] = "await_brainstorm"
    /\ conversation' = [conversation EXCEPT ![i] = text]
    /\ num_try' = [num_try EXCEPT ![i] = 0]
    /\ schema' = [schema EXCEPT ![i] = IdeasSchema]
    /\ inflight' = [inflight EXCEPT ![i] = None]
    /\ delivered' = [delivered EXCEPT ![i] = text]
    /\ pc' = [pc EXCEPT ![i] = "loop"]
    /\ UNCHANGED <<kwargs, audience, result, error, accepted, received,
                   raisedBy, nBrainstorm, nExtract, nRejected>>
    /\ UNCHANGED <<sentExtract, unknown>>

\* Variant of BrainstormRaises: the exception is swallowed and the call
\* goes on to the loop without a brainstorm text.
BrainstormRaisesSwallowed(i) ==
    /\ pc[i] = "await_brainstorm"
    /\ raisedBy' = [raisedBy EXCEPT ![i] = "brainstorm"]
    /\ num_try' = [num_try EXCEPT ![i] = 0]
    /\ schema' = [schema EXCEPT ![i] = IdeasSchema]
    /\ inflight' = [inflight EXCEPT ![i] = None]
    /\ pc' = [pc EXCEPT ![i] = "loop"]
    /\ UNCHANGED <<kwargs, audience, conversation, result, error, accepted,
                   delivered, received, nBrainstorm, nExtract, nRejected>>
    /\ UNCHANGED <<sentExtract, unknown>>

\* The first client.create raises: nothing catches it.
BrainstormRaises(i) ==
    /\ pc[i] = "await_brainstorm"
    /\ pc' = [pc EXCEPT ![i] = "done"]
    /\ error' = [error EXCEPT ![i] = "APIError"]
    /\ raisedBy' = [raisedBy EXCEPT ![i] = "brainstorm"]
    /\ inflight' = [inflight EXCEPT ![i] = None]
    /\ UNCHANGED <<kwargs, audience, conversation, num_try, schema, result,
                   accepted, delivered, received, nBrainstorm, nExtract,
                   nRejected>>
    /\ UNCHANGED <<sentExtract, unknown>>

\* Variant of LoopHead: after a rejected response the request asks for a
\* repair of that response instead of carrying the brainstorm text.
LoopHeadRepair(i) ==
    /\ pc[i] = "loop"
    /\ IF num_try[i] < MaxTries
       THEN LET req == ExtractRequest(schema[i],
                           IF received[i] = "invalid"
                           THEN PyStr("repair the previous answer")
                           ELSE conversation[i])
            IN  /\ inflight' = [inflight EXCEPT ![i] = req]
                /\ nExtract' = [nExtract EXCEPT ![i] = Inc(@)]
                /\ sentExtract' = [sentExtract EXCEPT ![i] = @ \cup {req}]
                /\ pc' = [pc EXCEPT ![i] = "await_extract"]
                /\ UNCHANGED error
       ELSE /\ pc' = [pc EXCEPT ![i] = "done"]
            /\ error' = [error EXCEPT ![i] = "Exception"]
            /\ UNCHANGED <<inflight, nExtract, sentExtract>>
    /\ UNCHANGED <<kwargs, audience, conversation, num_try, schema, result,
                   accepted, delivered, received, raisedBy, nBrainstorm,
                   nRejected, unknown>>

\* `while num_try < 3`: the loop body enters client.create; after the
\* loop, `raise Exception()`.
LoopHead(i) ==
    /\ pc[i] = "loop"
    /\ IF num_try[i] < MaxTries
       THEN /\ inflight' = [inflight EXCEPT ![i] =
                               ExtractRequest(schema[i], conversation[i])]
            /\ nExtract' = [nExtract EXCEPT ![i] = Inc(@)]
            /\ sentExtract' = [sentExtract EXCEPT ![i] =
                                  @ \cup {ExtractRequest(schema[i], conversation[i])}]
            /\ pc' = [pc EXCEPT ![i] = "await_extract"]
            /\ UNCHANGED error
       ELSE /\ pc' = [pc EXCEPT ![i] = "done"]
            /\ error' = [error EXCEPT ![i] = "Exception"]
            /\ UNCHANGED <<inflight, nExtract, sentExtract>>
    /\ UNCHANGED <<kwargs, audience, conversation, num_try, schema, result,
                   accepted, delivered, received, raisedBy, nBrainstorm,
                   nRejected>>
    /\ UNCHANGED unknown

\* `except: pass`: what the handler of a failed validation leaves in
\* num_try.  The handler has no statement but pass.
NumTryAfterFailure(n) == n

\* Variant of ExtractReturns: the validated value is assigned, not
\* returned, and the loop goes on.
ExtractReturnsNoReturn(i, r) ==
    /\ pc[i] = "await_extract"
    /\ inflight' = [inflight EXCEPT ![i] = None]
    /\ received' = [received EXCEPT ![i] =
                       IF SatisfiesIdeasSchema(r) THEN "valid" ELSE "invalid"]
    /\ LET v == ModelValidateJson(r)
       IN  IF v # ValidationError
           THEN /\ result' = [result EXCEPT ![i] = v]
                /\ accepted' = [accepted EXCEPT ![i] = r]
                /\ UNCHANGED <<num_try, nRejected>>
           ELSE /\ num_try' = [num_try EXCEPT ![i] = NumTryAfterFailure(@)]
                /\ nRejected' = [nRejected EXCEPT ![i] = Inc(@)]
                /\ UNCHANGED <<result, accepted>>
    /\ pc' = [pc EXCEPT ![i] = "loop"]
    /\ UNCHANGED <<kwargs, audience, conversation, schema, error, delivered,
                   raisedBy, nBrainstorm, nExtract>>
    /\ unknown' = [unknown EXCEPT ![i] =
                      SatisfiesIdeasSchema(r) /\ HasUnknownFields(r)]
    /\ UNCHANGED sentExtract

\* Variant of ExtractReturns: there is no try around the validation, so a
\* failed validation ends the call with pydantic's error.
ExtractReturnsReraise(i, r) ==
    /\ pc[i] = "await_extract"
    /\ inflight' = [inflight EXCEPT ![i] = None]
    /\ received' = [received EXCEPT ![i] =
                       IF SatisfiesIdeasSchema(r) THEN "valid" ELSE "invalid"]
    /\ LET v == ModelValidateJson(r)
       IN  IF v # ValidationError
           THEN /\ result' = [result EXCEPT ![i] = v]
                /\ accepted' = [accepted EXCEPT ![i] = r]
                /\ UNCHANGED <<error, nRejected>>
           ELSE /\ error' = [error EXCEPT ![i] = "ValidationError"]
                /\ nRejected' = [nRejected EXCEPT ![i] = Inc(@)]
                /\ UNCHANGED <<result, accepted>>
    /\ pc' = [pc EXCEPT ![i] = "done"]
    /\ unknown' = [unknown EXCEPT ![i] =
                      SatisfiesIdeasSchema(r) /\ HasUnknownFields(r)]
    /\ UNCHANGED <<kwargs, audience, conversation, num_try, schema, delivered,
                   raisedBy, nBrainstorm, nExtract, sentExtract>>

\* The client.create of the loop returns the content r:
\* `try: return Ideas.model_validate_json(response)` / `except: pass`.
ExtractReturns(i, r) ==
    /\ pc[i] = "await_extract"
    /\ inflight' = [inflight EXCEPT ![i] = None]
    /\ received' = [received EXCEPT ![i] =
                       IF SatisfiesIdeasSchema(r) THEN "valid" ELSE "invalid"]
    /\ LET v == ModelValidateJson(r)
       IN  IF v # ValidationError
           THEN /\ result' = [result EXCEPT ![i] = v]
                /\ accepted' = [accepted EXCEPT ![i] = r]
                /\ pc' = [pc EXCEPT ![i] = "done"]
                /\ UNCHANGED <<num_try, nRejected>>
           ELSE /\ num_try' = [num_try EXCEPT ![i] = NumTryAfterFailure(@)]
                /\ nRejected' = [nRejected EXCEPT ![i] = Inc(@)]
                /\ pc' = [pc EXCEPT ![i] = "loop"]
                /\ UNCHANGED <<result, accepted>>
    /\ UNCHANGED <<kwargs, audience, conversation, schema, error, delivered,
                   raisedBy, nBrainstorm, nExtract>>
    /\ unknown' = [unknown EXCEPT ![i] =
                      SatisfiesIdeasSchema(r) /\ HasUnknownFields(r)]
    /\ UNCHANGED sentExtract

\* Variant of ExtractRaises: the call is inside the try, so the bare except
\* takes the exception for a failed validation.
ExtractRaisesAbsorbed(i) ==
    /\ pc[i] = "await_extract"
    /\ raisedBy' = [raisedBy EXCEPT ![i] = "extract"]
    /\ inflight' = [inflight EXCEPT ![i] = None]
    /\ num_try' = [num_try EXCEPT ![i] = NumTryAfterFailure(@)]
    /\ nRejected' = [nRejected EXCEPT ![i] = Inc(@)]
    /\ pc' = [pc EXCEPT ![i] = "loop"]
    /\ UNCHANGED <<kwargs, audience, conversation, schema, result, error,
                   accepted, delivered, received, nBrainstorm, nExtract>>
    /\ UNCHANGED <<sentExtract, unknown>>

\* The client.create of the loop raises: the call is outside the try, so
\* nothing catches it.
ExtractRaises(i) ==
    /\ pc[i] = "await_extract"
    /\ pc' = [pc EXCEPT ![i] = "done"]
    /\ error' = [error EXCEPT ![i] = "APIError"]
    /\ raisedBy' = [raisedBy EXCEPT ![i] = "extract"]
    /\ inflight' = [inflight EXCEPT ![i] = None]
    /\ UNCHANGED <<kwargs, audience, conversation, num_try, schema, result,
                   accepted, delivered, received, nBrainstorm, nExtract,
                   nRejected>>
    /\ UNCHANGED <<sentExtract, unknown>>

\* One step of invocation i.
Step(i) ==
    \/ Start(i)
    \/ \E text \in Conversations : BrainstormReturns(i, text)
    \/ BrainstormRaises(i)
    \/ LoopHead(i)
    \/ \E r \in Responses : ExtractReturns(i, r)
    \/ ExtractRaises(i)

Next == \E i \in Invs : Step(i)

Spec == Init /\ [][Next]_vars

\* The interpreter keeps running every invocation that can take a step,
\* and every client.create returns or raises.  Which text the service
\* returns is not constrained.
FairSpec == Spec /\ \A i \in Invs : WF_vars(Step(i))

(***************************************************************************)
(* Properties.                                                             *)
(***************************************************************************)
Returned(i) == pc[i] = "done" /\ error[i] = "None"

\* C1: Retry bound.  When every extractor response fails validation, exactly
\* 3 extractor requests are issued: there is never a 4th request, no request
\* is in flight once 3 responses have been rejected, and a call that ends
\* after 3 rejections ends with the exhaustion error and no result.
RetryBound ==
    \A i \in Invs :
        /\ nExtract[i] <= MaxTries
        /\ nRejected[i] >= MaxTries => pc[i] # "await_extract"
        /\ (nRejected[i] >= MaxTries /\ pc[i] = "done")
               => (error[i] = "Exception" /\ result[i] = None)

\* C2: Termination.  Every invocation eventually ends, by returning or by
\* raising, whatever the service answers.
Termination == \A i \in Invs : <>(pc[i] = "done")
\* C3: Early success.  When the first response that satisfies the schema
\* comes on attempt k <= 3, the call has ended returning the collection
\* parsed from that response, exactly k extractor requests were issued, and
\* a call that has ended issues no further request.
EarlySuccess ==
    /\ [](\A i \in Invs :
            (received[i] = "valid" /\ nRejected[i] < MaxTries)
                => /\ Returned(i)
                   /\ result[i] # None
                   /\ result[i] = ModelValidateJson(accepted[i])
                   /\ nExtract[i] = nRejected[i] + 1
                   /\ inflight[i] = None)
    /\ [][\A i \in Invs :
            pc[i] = "done"
                => /\ pc'[i] = "done"
                   /\ nExtract'[i] = nExtract[i]
                   /\ inflight'[i] = None]_vars

\* C3 witness: a call that returned on its 2nd attempt, after one rejected
\* response.
EarlySuccessWitness ==
    \E i \in Invs :
        /\ Returned(i)
        /\ received[i] = "valid"
        /\ nRejected[i] = 1
        /\ nExtract[i] = 2

\* Every idea of the collection x has exactly the four fields, each a str.
WellFormedIdeas(x) ==
    /\ x.k = "Ideas"
    /\ \A n \in 1..Len(x.ideas) :
          /\ DOMAIN x.ideas[n] = IdeaFields
          /\ \A f \in IdeaFields : x.ideas[n][f].k = "str"

\* C4: All-or-nothing result.  A call that has ended has either an error and
\* no result, or a collection whose every idea has the four fields as
\* strings and that was parsed from a response satisfying the schema; a call
\* that has not ended has no result.
AllOrNothing ==
    \A i \in Invs :
        /\ pc[i] # "done" => (result[i] = None /\ error[i] = "None")
        /\ pc[i] = "done" =>
              \/ error[i] # "None" /\ result[i] = None
              \/ /\ error[i] = "None"
                 /\ result[i] # None
                 /\ WellFormedIdeas(result[i])
                 /\ SatisfiesIdeasSchema(accepted[i])

\* C4 witness: a call that returned a collection of at least one idea after
\* a rejected response, next to a call that ended with an error.
AllOrNothingWitness ==
    \E i, j \in Invs :
        /\ Returned(i)
        /\ result[i] # None
        /\ Len(result[i].ideas) >= 1
        /\ nRejected[i] >= 1
        /\ pc[j] = "done"
        /\ error[j] # "None"

\* C5: Fail fast on the brainstorm call.  When the brainstorm call has
\* raised, the invocation has ended with that error, without a result, and
\* no extractor request was issued.
FailFastBrainstorm ==
    \A i \in Invs :
        raisedBy[i] = "brainstorm"
            => /\ pc[i] = "done"
               /\ error[i] = "APIError"
               /\ result[i] = None
               /\ nExtract[i] = 0
               /\ inflight[i] = None

\* C5 witness: an invocation whose brainstorm call raised.
FailFastBrainstormWitness ==
    \E i \in Invs : raisedBy[i] = "brainstorm" /\ nBrainstorm[i] = 1

\* C6: An error of the extractor call is not retried.  When the extractor
\* call has raised, the invocation has ended with that error and no result;
\* the step in which it raises ends the call, issues no request and does
\* not count as a rejected response.
ExtractErrorNotRetried ==
    /\ [](\A i \in Invs :
            raisedBy[i] = "extract"
                => /\ pc[i] = "done"
                   /\ error[i] = "APIError"
                   /\ result[i] = None
                   /\ inflight[i] = None)
    /\ [][\A i \in Invs :
            (raisedBy[i] # "extract" /\ raisedBy'[i] = "extract")
                => /\ pc'[i] = "done"
                   /\ nExtract'[i] = nExtract[i]
                   /\ nRejected'[i] = nRejected[i]
                   /\ num_try'[i] = num_try[i]]_vars

\* C6 witness: the extractor call raised on the 2nd attempt, with attempts
\* left in the budget.
ExtractErrorNotRetriedWitness ==
    \E i \in Invs :
        /\ raisedBy[i] = "extract"
        /\ nExtract[i] = 2
        /\ nRejected[i] = 1
        /\ num_try[i] < MaxTries

\* C8: Exact extraction.  The collection returned from a response that
\* satisfies the schema has as many ideas as the response, in the same
\* order, and every field of every idea is the string of the response.
ExactExtraction ==
    \A i \in Invs :
        received[i] = "valid"
            => LET items == accepted[i].v.o["ideas"].v
               IN  /\ Returned(i)
                   /\ result[i].k = "Ideas"
                   /\ Len(result[i].ideas) = Len(items)
                   /\ \A n \in 1..Len(items) :
                         \A f \in IdeaFields :
                             result[i].ideas[n][f] = items[n].o[f]

\* C8 witness: a returned collection of two different ideas.
ExactExtractionWitness ==
    \E i \in Invs :
        /\ Returned(i)
        /\ received[i] = "valid"
        /\ Len(result[i].ideas) = 2
        /\ result[i].ideas[1] # result[i].ideas[2]

\* C9: Non-mutation of input.  No step changes the keyword arguments of any
\* invocation, whether it goes on, returns or raises.
AudienceUnchanged == [][\A i \in Invs : kwargs'[i] = kwargs[i]]_vars

\* C9 witness: a call with a two-attribute audience has returned, and
\* another has ended with an error.
AudienceUnchangedWitness ==
    \E i, j \in Invs :
        /\ Returned(i)
        /\ result[i] # None
        /\ Len(kwargs[i].attributes.v) = 2
        /\ pc[j] = "done"
        /\ error[j] # "None"

\* The locals of invocation i.
Locals(i) ==
    <<pc[i], kwargs[i], audience[i], conversation[i], num_try[i], schema[i],
      inflight[i], result[i], error[i]>>

\* C10: Independence of interleaved invocations.  A step changes the locals
\* of one invocation only; the requests of an invocation carry its own
\* keyword arguments and the brainstorm text the service returned to it;
\* its result is parsed from a response to its own request.
Independence ==
    /\ [](\A i \in Invs :
            /\ conversation[i] = delivered[i]
            /\ inflight[i].k = "brainstorm" => inflight[i].audience = kwargs[i]
            /\ inflight[i].k = "extract"
                  => /\ inflight[i].conversation = delivered[i]
                     /\ inflight[i].schema = IdeasSchema
            /\ result[i] # None => result[i] = ModelValidateJson(accepted[i]))
    /\ [][\A i, j \in Invs :
            i # j => (Locals(i)' = Locals(i) \/ Locals(j)' = Locals(j))]_vars

\* C10 witness: two invocations for different audiences that were given
\* different brainstorm texts and took different numbers of attempts have
\* both returned.
IndependenceWitness ==
    \E i, j \in Invs :
        /\ i # j
        /\ Returned(i) /\ Returned(j)
        /\ result[i] # None /\ result[j] # None
        /\ kwargs[i] # kwargs[j]
        /\ delivered[i] # delivered[j]
        /\ nExtract[i] # nExtract[j]
\* The `raise Exception()` after the loop is never reached: no invocation
\* ends with the exhaustion error.
ExhaustionUnreachable == \A i \in Invs : error[i] # "Exception"

\* C11: Bounded request count.  In every state an invocation has issued at
\* most 3 extractor requests and at most 1 brainstorm request, so at most 4
\* chat-completion calls in all.
BoundedRequests ==
    \A i \in Invs :
        /\ nBrainstorm[i] <= 1
        /\ nExtract[i] <= MaxTries
        /\ nBrainstorm[i] + nExtract[i] <= MaxTries + 1

\* C12: Each failed attempt consumes one unit of the budget.  After every
\* rejected response (an empty or blank text, a document without a required
\* field, ...) num_try is the number of extractor responses rejected so far,
\* and the budget left is 3 minus that number.
BudgetConsumed ==
    \A i \in Invs :
        /\ num_try[i] = nRejected[i]
        /\ MaxTries - num_try[i] = MaxTries - nRejected[i]
        /\ nRejected[i] <= MaxTries

\* C13: Per-attempt validation failures are absorbed.  After a rejected
\* response on an attempt k < 3 the invocation has no error and no result
\* and is still in the loop, and its next step issues the next extractor
\* request.
FailuresAbsorbed ==
    /\ [](\A i \in Invs :
            (received[i] = "invalid" /\ raisedBy[i] = "None"
                 /\ nRejected[i] < MaxTries)
                => /\ error[i] = "None"
                   /\ result[i] = None
                   /\ pc[i] \in {"loop", "await_extract"})
    /\ [][\A i \in Invs :
            (pc[i] = "loop" /\ nRejected[i] \in 1..(MaxTries - 1)
                 /\ pc'[i] # "loop")
                => /\ pc'[i] = "await_extract"
                   /\ nExtract'[i] = nExtract[i] + 1
                   /\ error'[i] = "None"]_vars

\* C13 witness: two responses were rejected and the 3rd request is out.
FailuresAbsorbedWitness ==
    \E i \in Invs :
        /\ received[i] = "invalid"
        /\ nRejected[i] = 2
        /\ nExtract[i] = 3
        /\ pc[i] = "await_extract"

\* C14: Strict pipeline order.  An invocation that got past the validation
\* of its arguments has sent exactly one brainstorm request, and never sends
\* another; an extractor request is sent only after the brainstorm response
\* has come, and it embeds the text of that response.
PipelineOrder ==
    /\ [](\A i \in Invs :
            /\ nBrainstorm[i] <= 1
            /\ audience[i] # None => nBrainstorm[i] = 1
            /\ nExtract[i] > 0 => (nBrainstorm[i] = 1 /\ delivered[i] # None)
            /\ inflight[i].k = "brainstorm" => (nExtract[i] = 0 /\ sentExtract[i] = {})
            /\ \A c \in sentExtract[i] :
                  delivered[i] # None /\ c.conversation = delivered[i])
    /\ [][\A i \in Invs : nBrainstorm[i] = 1 => nBrainstorm'[i] = 1]_vars

\* C14 witness: an invocation that has sent its brainstorm request and two
\* extractor requests.
PipelineOrderWitness ==
    \E i \in Invs :
        /\ nBrainstorm[i] = 1
        /\ nExtract[i] = 2
        /\ sentExtract[i] # {}

\* C15: Stateless retries.  All extractor requests of one invocation have
\* the same content, made of the Ideas schema and the brainstorm text the
\* invocation was given, whatever responses were rejected before.
StatelessRetries ==
    \A i \in Invs :
        /\ Cardinality(sentExtract[i]) <= 1
        /\ \A c \in sentExtract[i] :
              c = [k |-> "extract", schema |-> IdeasSchema,
                   conversation |-> delivered[i]]
        /\ inflight[i].k = "extract" => inflight[i] \in sentExtract[i]
        /\ nExtract[i] > 0 => sentExtract[i] # {}

\* C15 witness: the 3rd request is out after two rejected responses.
StatelessRetriesWitness ==
    \E i \in Invs :
        /\ nExtract[i] = 3
        /\ nRejected[i] = 2
        /\ received[i] = "invalid"
        /\ Cardinality(sentExtract[i]) = 1

\* C16: Permissive handling of unknown fields.  A response that satisfies
\* the schema and has undeclared keys is accepted on the attempt it comes:
\* the call returns, the step counts no rejection and leaves num_try alone,
\* and the collection returned has the declared fields only, with the
\* values of the response.
PermissiveUnknownFields ==
    /\ [](\A i \in Invs :
            unknown[i]
                => LET items == accepted[i].v.o["ideas"].v
                   IN  /\ Returned(i)
                       /\ DOMAIN result[i] = {"k", "ideas"}
                       /\ Len(result[i].ideas) = Len(items)
                       /\ \A n \in 1..Len(items) :
                             /\ DOMAIN result[i].ideas[n] = IdeaFields
                             /\ \A f \in IdeaFields :
                                   result[i].ideas[n][f] = items[n].o[f])
    /\ [][\A i \in Invs :
            (~unknown[i] /\ unknown'[i])
                => /\ nRejected'[i] = nRejected[i]
                   /\ num_try'[i] = num_try[i]
                   /\ nExtract'[i] = nExtract[i]]_vars

\* C16 witness: one call returned from a response with an undeclared key at
\* top level, another from a response with an undeclared key in an idea.
PermissiveUnknownFieldsWitness ==
    \E i, j \in Invs :
        /\ unknown[i] /\ Returned(i)
        /\ "note" \in DOMAIN accepted[i].v.o
        /\ unknown[j] /\ Returned(j)
        /\ "mood" \in DOMAIN accepted[j].v.o["ideas"].v[1].o

=============================================================================
